---- MODULE Spec2Model ----
(***************************************************************************)
(* ClaudeCodeService.create_mcp_from_har                                   *)
(* (src/backend/app/services/claude_code_service.py): one invocation of    *)
(* the session runner, from the call to the returned outcome.  The         *)
(* coroutine suspends only at the `async for`, so the call up to the       *)
(* opening of the session is one step, every message of the stream is one  *)
(* step, and the end of the stream (clean or raising) is one step.         *)
(*                                                                         *)
(* Strings are sequences of tokens.  The marker                            *)
(* "done MCP created and running on http://127.0.0.1:" is one token, a     *)
(* port number in decimal is one token, " " and "\n" are the whitespace    *)
(* tokens, every other token is ordinary text.                             *)
(***************************************************************************)
EXTENDS Integers, Sequences, FiniteSets, TLC

VARIABLES
    sdkAvailable,   \* query and ClaudeCodeOptions were imported (lines 16-31)
    pc,             \* "idle" | "streaming" | "returned" | "raised" | "cancelled"
    req,            \* the arguments of the invocation
    sessionsOpened, \* number of calls of query(...) made so far
    prompt,         \* the prompt handed to query: [files, port]
    options,        \* the ClaudeCodeOptions handed to query
    consumed,       \* the content blocks the loop has visited, in arrival order
    nMessages,      \* number of messages the stream has yielded
    logs,           \* local `logs`
    final_message,  \* local `final_message`
    streamExc,      \* the exception the stream raised, if it did
    result,         \* the returned dict
    dirs,           \* the directories on disk
    fsOps,          \* the filesystem and process calls the invocation has made, in order
    sessionOpen,    \* the async generator returned by query() is not finished
    procExc,        \* the exception a statement of the loop body raised, if one did
    escaped,        \* the exception that left create_mcp_from_har, if one did
    http,           \* what the route answers
    prior,          \* which call on this disk this is, and the directories it found
    sink,           \* the logging sink: whether its writes succeed, the per-event lines written
    callerTools,    \* the caller's allowed_tools list as the call leaves it
    yielded,        \* the messages the stream has yielded, in order
    inv,            \* two concurrent invocations: each one's locals
    browser,        \* one call of a BrowserAgent method and its browser session
    agent           \* a ClaudeAgent: its attributes and what its caller saw

\* the variables of one invocation
runVars == <<sdkAvailable, pc, req, sessionsOpened, prompt, options, consumed,
             nMessages, logs, final_message, streamExc, result, dirs, fsOps,
             sessionOpen, procExc, escaped, http, prior, sink, callerTools,
             yielded>>

vars == <<runVars, inv, browser, agent>>

----------------------------------------------------------------------------
(* Bounds of the model *)

MaxHars == 2      \* longest har_paths list
MaxTools == 2     \* longest caller-supplied allowed_tools list
MaxCalls == 2         \* calls made one after the other on the same disk
MaxMsgs == 2      \* most messages a stream yields before it ends

(* Program constants *)

LogLimit == 100       \* logs[-100:]
DefaultPort == 8111   \* port or 8111
DefaultTurns == 20    \* max_turns or 20

----------------------------------------------------------------------------
(* Python values *)

None == <<"None">>        \* Python None where a str or a list is expected
NoneInt == -1             \* Python None where an int is expected
NoPort == NoneInt         \* port=None
NoTurns == NoneInt        \* max_turns=None
NoneList == <<None>>      \* Python None where a list of str is expected
NoResult == [returned |-> FALSE]
NoExc == [type |-> "none", msg |-> <<>>]

Marker == "done MCP created and running on http://127.0.0.1:"
SP == " "
NL == "\n"

IsSpace(c) == c \in {SP, NL}

\* str(port)
PortStr(p) ==
    CASE p = 8111 -> "8111" [] p = 9000 -> "9000" [] p = 0 -> "0" [] OTHER -> "None"

\* needle in text, for the one-token needle
Contains(text, needle) == \E i \in 1..Len(text) : text[i] = needle

RECURSIVE LStrip(_)
LStrip(s) == IF s = <<>> THEN s
             ELSE IF IsSpace(Head(s)) THEN LStrip(Tail(s)) ELSE s

RECURSIVE RStrip(_)
RStrip(s) == IF s = <<>> THEN s
             ELSE IF IsSpace(s[Len(s)]) THEN RStrip(SubSeq(s, 1, Len(s) - 1)) ELSE s

\* str.strip()
Strip(s) == RStrip(LStrip(s))

\* str.splitlines(): no line for the empty string, none after a final newline
RECURSIVE SplitLines(_)
SplitLines(s) ==
    IF s = <<>> THEN <<>>
    ELSE IF \E i \in 1..Len(s) : s[i] = NL
         THEN LET i == CHOOSE k \in 1..Len(s) :
                           s[k] = NL /\ \A j \in 1..(k - 1) : s[j] # NL
              IN <<SubSeq(s, 1, i - 1)>> \o SplitLines(SubSeq(s, i + 1, Len(s)))
         ELSE <<s>>

\* text.strip().splitlines()[-1]; only evaluated on a text that holds the marker
LastLine(text) == LET ls == SplitLines(Strip(text)) IN ls[Len(ls)]

\* bool(x) for an Optional[str]
Truthy(x) == x # None /\ x # <<>>

\* logs[:100] in place of logs[-100:]
FirstHundred(l) == [i \in 1..(IF Len(l) > LogLimit THEN LogLimit ELSE Len(l)) |-> l[i]]

\* logs[-100:]
LastHundred(l) ==
    LET start == IF Len(l) > LogLimit THEN Len(l) - LogLimit ELSE 0
    IN [i \in 1..(Len(l) - start) |-> l[start + i]]

----------------------------------------------------------------------------
(* Paths: a path is the sequence of its components; an absolute path starts *)
(* with "/".                                                                *)

RepoRoot == <<"/", "repo">>

HarA == <<"backend", "a.har">>            \* relative, exists under the repo root
HarMissingRel == <<"..", "nope.har">>     \* relative, resolves outside the repo
HarMissingAbs == <<"/", "tmp", "gone.har">>
HarPaths == {HarA, HarMissingRel, HarMissingAbs}

\* the files that exist on disk
Disk == {RepoRoot \o HarA}

\* line 41: default_output_dir, made by __init__ (line 42)
DefaultOutputDir == RepoRoot \o <<"mcp">>

IsAbsolute(p) == p # <<>> /\ Head(p) = "/"

\* Path.resolve() of an absolute path: ".." drops the component before it
RECURSIVE Collapse(_, _)
Collapse(done, rest) ==
    IF rest = <<>> THEN done
    ELSE IF Head(rest) = ".."
         THEN Collapse(IF Len(done) > 1 THEN SubSeq(done, 1, Len(done) - 1) ELSE done,
                       Tail(rest))
         ELSE Collapse(Append(done, Head(rest)), Tail(rest))

Resolve(p) == Collapse(<<>>, p)

\* lines 93-95: pp
ResolvedHar(p) == IF IsAbsolute(p) THEN p ELSE Resolve(RepoRoot \o p)

Exists(pp) == pp \in Disk

IsUnder(pp, root) == Len(pp) >= Len(root) /\ SubSeq(pp, 1, Len(root)) = root

\* lines 99-103: rel
RelForRead(pp) == IF IsUnder(pp, RepoRoot)
                  THEN SubSeq(pp, Len(RepoRoot) + 1, Len(pp))
                  ELSE pp

\* only har_paths[0] is checked
FirstEntryMissing(hars) ==
    IF hars # <<>> /\ ~Exists(ResolvedHar(hars[1])) THEN 1 ELSE 0

\* lines 92-97: index of the first har_paths entry that does not exist, 0 when
\* all exist
FirstMissing(hars) ==
    IF \E i \in 1..Len(hars) : ~Exists(ResolvedHar(hars[i]))
    THEN CHOOSE i \in 1..Len(hars) :
             /\ ~Exists(ResolvedHar(hars[i]))
             /\ \A j \in 1..(i - 1) : Exists(ResolvedHar(hars[j]))
    ELSE 0

NormHars(hars) == [i \in 1..Len(hars) |-> RelForRead(ResolvedHar(hars[i]))]

----------------------------------------------------------------------------
(* Requests *)

SeqsUpTo(S, n) == UNION {[1..k -> S] : k \in 0..n}

ToolNames == {"Read", "Bash"}
DefaultTools == <<"Read", "Write", "Grep", "WebSearch", "WebFetch">>

Ports == {NoPort, 0, 9000}
AllowLists == {None} \cup SeqsUpTo(ToolNames, MaxTools)
\* None, "", and the SDK's interactive mode
PermissionModes == {None, <<>>, <<"default">>}
TurnBudgets == {NoTurns, 0, 5}
\* None, "mcp" (the route's default), another directory, the path of a file
OutputDirs == {None, <<"mcp">>, <<"out">>, HarA}
ServerNames == {None, <<"My Server">>}

\* the request of the route's example, all optional fields left out
PlainRequest == [har_paths |-> <<HarA>>, server_name |-> None, port |-> NoPort,
                 output_dir |-> None, allowed_tools |-> None, allow_bash |-> FALSE,
                 permission_mode |-> None, max_turns |-> NoTurns,
                 stream_logs |-> TRUE]

\* No statement of lines 84-172 reads fields of two of these groups: the
\* validated fields (har_paths, port), the output directory and the server
\* name, the tool grant (allowed_tools, allow_bash), the session settings
\* (permission_mode, max_turns) and the logging flag (stream_logs).  The
\* requests vary one group at a time.
OutputRequests ==
    {[PlainRequest EXCEPT !.output_dir = d, !.server_name = n] :
        d \in OutputDirs, n \in ServerNames}

LoggingRequests == {[PlainRequest EXCEPT !.stream_logs = b] : b \in BOOLEAN}

ValidatedRequests ==
    {[PlainRequest EXCEPT !.har_paths = h, !.port = p] :
        h \in SeqsUpTo(HarPaths, MaxHars), p \in Ports}

Requests ==
    ValidatedRequests
    \cup OutputRequests
    \cup LoggingRequests
    \cup
    {[PlainRequest EXCEPT !.allowed_tools = t, !.allow_bash = b] :
        t \in AllowLists, b \in BOOLEAN}
    \cup
    {[PlainRequest EXCEPT !.permission_mode = pm, !.max_turns = mt] :
        pm \in PermissionModes, mt \in TurnBudgets}

NoRequest == [har_paths |-> <<>>, server_name |-> None, port |-> NoPort,
              output_dir |-> None, allowed_tools |-> None, allow_bash |-> FALSE,
              permission_mode |-> None, max_turns |-> NoTurns,
              stream_logs |-> TRUE]

\* most messages the stream of the n-th call yields for request r: streams
\* of MaxMsgs messages for the requests that vary the validated fields or the
\* logging flag, and one message for the requests that vary what the loop of
\* lines 172-202 never reads and for a later call, which is there for what
\* it finds on the disk
MsgBudget(n, r) ==
    IF n = 1 /\ r \in ValidatedRequests \cup LoggingRequests THEN MaxMsgs ELSE 1

\* the requests a later call on the same disk is drawn from
RequestsOfCall(n) == IF n = 1 THEN Requests ELSE OutputRequests

\* bool(n) for an Optional[int]
TruthyInt(n) == n # NoneInt /\ n # 0

\* port or 8111
EffectivePort(port) == IF TruthyInt(port) THEN port ELSE DefaultPort

\* a session that always gets the default budget
TurnsIgnoringRequest(max_turns) == DefaultTurns

\* line 166: max_turns or 20
EffectiveTurns(max_turns) == IF TruthyInt(max_turns) THEN max_turns ELSE DefaultTurns

\* a session that ignores the caller's mode
ModeIgnoringRequest(permission_mode) == <<"bypassPermissions">>

\* line 164: permission_mode or "bypassPermissions"
EffectiveMode(permission_mode) ==
    IF Truthy(permission_mode) THEN permission_mode ELSE <<"bypassPermissions">>

\* lines 106-111: out_dir
OutDir(output_dir) ==
    IF Truthy(output_dir)
    THEN IF IsAbsolute(output_dir) THEN output_dir ELSE Resolve(RepoRoot \o output_dir)
    ELSE DefaultOutputDir

\* mkdir without exist_ok
MkdirFailsIfPresent(d, existing) == d \in Disk \/ d \in existing

\* line 112: out_dir.mkdir(parents=True, exist_ok=True) raises FileExistsError
\* when the path is a file, and not when it is one of the existing directories
MkdirFails(d, existing) == d \in Disk

FileExists(d) == [type |-> "FileExistsError", msg |-> <<"[Errno 17] File exists: ">> \o d]

\* "Bash" in tools
InList(x, l) == \E i \in 1..Len(l) : l[i] = x

\* "Bash" appended whatever allow_bash says
GrantToolsIgnoringFlag(allowed_tools, allow_bash) ==
    LET tools == IF allowed_tools # None THEN allowed_tools ELSE DefaultTools
    IN IF ~InList("Bash", tools) THEN Append(tools, "Bash") ELSE tools

\* "Bash" appended without the test `"Bash" not in tools`
GrantToolsNoMembershipTest(allowed_tools, allow_bash) ==
    LET tools == IF allowed_tools # None THEN allowed_tools ELSE DefaultTools
    IN IF allow_bash THEN Append(tools, "Bash") ELSE tools

\* lines 150-158: tools
GrantTools(allowed_tools, allow_bash) ==
    LET tools == IF allowed_tools # None THEN allowed_tools ELSE DefaultTools
    IN IF allow_bash /\ ~InList("Bash", tools) THEN Append(tools, "Bash") ELSE tools

\* lines 160-167
MakeOptions(r) ==
    [cwd |-> RepoRoot,
     allowed_tools |-> GrantTools(r.allowed_tools, r.allow_bash),
     permission_mode |-> EffectiveMode(r.permission_mode),
     max_turns |-> EffectiveTurns(r.max_turns)]

\* the caller's list when the grant is the list itself, not a copy of it
CallerListAliased(allowed_tools, allow_bash) ==
    IF allowed_tools = None THEN None ELSE GrantTools(allowed_tools, allow_bash)

\* lines 150, 157-158: tools is list(allowed_tools), a copy; the append goes
\* to the copy and the caller's list stays as it was
CallerListAfter(allowed_tools, allow_bash) == allowed_tools

NoOptions == [cwd |-> <<>>, allowed_tools |-> <<>>, permission_mode |-> None,
              max_turns |-> NoTurns]

\* lines 122-146: what of the prompt depends on the request
\* "done MCP created and running on http://127.0.0.1:{port}"
TerminalLine(port) == <<Marker, PortStr(port)>>

\* lines 122-146: what of the prompt depends on the request
MakePrompt(r) ==
    [files |-> NormHars(r.har_paths),
     server_name |-> IF Truthy(r.server_name) THEN r.server_name
                     ELSE <<"HAR MCP Server">>,
     port |-> EffectivePort(r.port),
     final_line |-> TerminalLine(EffectivePort(r.port))]

NoPrompt == [files |-> <<>>, server_name |-> None, port |-> NoPort,
             final_line |-> <<>>]

----------------------------------------------------------------------------
(* The stream: messages and their content blocks *)

TextBlock(t) == [type |-> "TextBlock", text |-> t]

Texts ==
    { TerminalLine(8111),                       \* the exact line, port 8111
      TerminalLine(9000),                       \* the exact line, port 9000
      <<Marker, "8111", SP, "x">>,              \* trailing content on the line
      <<Marker, "8111", NL, "x">>,              \* the line, then another line
      <<SP, "x", NL, Marker, "8111", NL>>,      \* the line last, whitespace around
      <<"x">> }                                 \* no marker

ToolUse == [type |-> "ToolUseBlock", name |-> "Read", input |-> "{'file_path': 'a.har'}"]
\* the SDK's ToolResultBlock has neither a tool_name nor an output attribute
ToolResult == [type |-> "ToolResultBlock", tool_use_id |-> "t1"]
ToolResultNamed == [type |-> "ToolResultBlock", tool_name |-> "Read", output |-> "{}"]
Thinking == [type |-> "ThinkingBlock"]

\* a message with as many blocks as the outcome keeps log entries
LongContent == [i \in 1..LogLimit |-> IF i = 1 THEN TextBlock(<<"x">>) ELSE ToolUse]

\* a message of several blocks: one that is not logged, a text that is None,
\* the two shapes of tool result
MixedContent == <<Thinking, TextBlock(None), ToolResult, ToolResultNamed>>

\* tool blocks whose payload raises in str(): the fallback renders them
FallbackContent ==
    <<[ToolUse EXCEPT !.input = "<object>"] @@ [payload |-> "no_str"],
      ToolResultNamed @@ [payload |-> "no_str"],
      TextBlock(TerminalLine(DefaultPort))>>

\* a text, then a tool block whose payload raises in repr() as well
UnprintableContent ==
    <<TextBlock(<<"x">>), ToolUse @@ [payload |-> "no_repr"],
      TextBlock(TerminalLine(DefaultPort))>>

Contents ==
    {<<TextBlock(t)>> : t \in Texts}
        \cup {<<ToolUse>>, MixedContent, LongContent, FallbackContent, UnprintableContent}

\* a message that is not an AssistantMessage and has content
UserMessage == [type |-> "UserMessage", content |-> <<TextBlock(TerminalLine(DefaultPort))>>]

PlainMessage == [type |-> "AssistantMessage", content |-> <<TextBlock(<<"x">>)>>]

Messages ==
    {[type |-> "AssistantMessage", content |-> c] : c \in Contents}
        \cup {[type |-> "AssistantMessage"], [type |-> "ResultMessage"], UserMessage}

Exceptions == {[type |-> "ConnectionError", msg |-> <<"connection", SP, "lost">>],
               [type |-> "ProcessError", msg |-> <<"exit", SP, "code", SP, "1">>]}

\* str(e)
ExcText(e) == e.msg

\* getattr(obj, attr, default)
GetAttr(obj, attr, default) == IF attr \in DOMAIN obj THEN obj[attr] ELSE default

\* lines 185-187: f"[Claude][ToolUse] {name}: {input_json}"
ToolUseEntry(b) ==
    <<"[Claude][ToolUse] ", GetAttr(b, "name", "tool"), ": ", GetAttr(b, "input", "None")>>

\* lines 195-197: f"[Claude][ToolResult] {name}: {output_json}"
ToolResultEntry(b) ==
    <<"[Claude][ToolResult] ", GetAttr(b, "tool_name", "tool"), ": ",
      GetAttr(b, "output", "None")>>

\* how the payload of a tool block renders: "plain" renders, "no_str" raises
\* in str() and renders in repr(), "no_repr" raises in both
Payload(b) == GetAttr(b, "payload", "plain")

\* lines 189, 199: f"[Claude][ToolUse] {block}", the repr of the dataclass
FallbackEntry(b) ==
    <<IF b.type = "ToolUseBlock" THEN "[Claude][ToolUse] " ELSE "[Claude][ToolResult] ",
      b.type, "(...)">>

\* the exception repr() raises on a payload that has no repr
ReprError == [type |-> "RecursionError",
              msg |-> <<"maximum recursion depth exceeded while getting the repr of an object">>]

\* line 177: block.text or ""
TextOf(b) == IF b.text = None THEN <<>> ELSE b.text

\* text.startswith(...) in place of `... in text`
MatchesDoneAtStart(text) == text # <<>> /\ Head(text) = Marker

\* line 181: the test that decides whether a text sets final_message
MatchesDone(text) == Contains(text, Marker)

\* lines 176, 183, 193: the blocks that append to logs
IsLogged(b) == b.type \in {"TextBlock", "ToolUseBlock", "ToolResultBlock"}

\* lines 178, 190, 200: what a block appends to logs
LogEntry(b) ==
    CASE b.type = "TextBlock" -> TextOf(b)
      [] b.type = "ToolUseBlock" ->
            IF Payload(b) = "plain" THEN ToolUseEntry(b) ELSE FallbackEntry(b)
      [] b.type = "ToolResultBlock" ->
            IF Payload(b) = "plain" THEN ToolResultEntry(b) ELSE FallbackEntry(b)

\* the index of the first block whose fallback raises too, 0 when there is none
FirstUnprintable(content) ==
    LET bad == {i \in 1..Len(content) :
                   /\ content[i].type \in {"ToolUseBlock", "ToolResultBlock"}
                   /\ Payload(content[i]) = "no_repr"}
    IN IF bad = {} THEN 0 ELSE CHOOSE i \in bad : \A j \in bad : i <= j

\* lines 180, 192, 202: what logger.info receives for a block
SinkLine(b) == IF b.type = "TextBlock" THEN <<"[Claude] ">> \o TextOf(b) ELSE LogEntry(b)

\* a runner that mirrors every event whatever stream_logs is
SinkLinesAlways(stream_logs, content) ==
    LET logged == SelectSeq(content, IsLogged)
    IN [i \in 1..Len(logged) |-> SinkLine(logged[i])]

\* lines 179-180, 191-192, 201-202: the lines handed to logger.info for the
\* blocks of one message
SinkLines(stream_logs, content) ==
    LET logged == SelectSeq(content, IsLogged)
    IN IF stream_logs THEN [i \in 1..Len(logged) |-> SinkLine(logged[i])] ELSE <<>>

\* the sink (app.core.log_config, not part of the sources): write(line) is
\* fire-and-forget; a write that fails leaves no line and raises nothing
SinkWrite(up, lines) == IF up THEN lines ELSE <<>>

\* lines 181-182: whether block b assigns final_message
SetsFinal(b) == b.type = "TextBlock" /\ MatchesDone(TextOf(b))

\* lines 181-182 over the blocks of one message, in order: every block that
\* matches assigns final_message, so the assignment of the last one stands
FinalAfter(fm, content) ==
    LET hits == {i \in 1..Len(content) : SetsFinal(content[i])}
    IN IF hits = {} THEN fm
       ELSE LastLine(TextOf(content[CHOOSE i \in hits : \A j \in hits : j <= i]))

\* a fold that puts the entries of a message before the entries already there
OnBlocksNewestFirst(acc, content) ==
    LET logged == SelectSeq(content, IsLogged)
    IN [logs |-> [i \in 1..Len(logged) |-> LogEntry(logged[i])] \o acc.logs,
        final_message |-> FinalAfter(acc.final_message, content)]

\* lines 175-202: the blocks of one message folded in order into
\* acc = [logs, final_message]
OnBlocks(acc, content) ==
    LET logged == SelectSeq(content, IsLogged)
    IN [logs |-> acc.logs \o [i \in 1..Len(logged) |-> LogEntry(logged[i])],
        final_message |-> FinalAfter(acc.final_message, content)]

\* line 175: getattr(message, "content", []) or [], of an AssistantMessage only
ContentOf(m) == IF m.type = "AssistantMessage" THEN GetAttr(m, "content", <<>>) ELSE <<>>

\* line 97
HarNotFound(pp) == [success |-> FALSE, error |-> <<"HAR file not found: ">> \o pp]

\* lines 85-88
\* the failure of line 97 in the place of the failure of lines 85-88
SdkMissingAsHarError == [success |-> FALSE, error |-> <<"HAR file not found: ">>]

\* lines 85-88
SdkMissing == [success |-> FALSE, error |-> <<"claude-code-sdk is not installed">>]

\* the error outcome with the logs cut as the final outcome cuts them
ErrorOutcomeTruncated(e, l) ==
    [success |-> FALSE, error |-> ExcText(e), logs |-> LastHundred(l)]

\* line 205
ErrorOutcome(e, l) == [success |-> FALSE, error |-> ExcText(e), logs |-> l]

\* the command for the default port whatever the effective port is
RunCommandDefaultPort(port) ==
    <<"fastmcp run ", "mcp/har_api_server.py", ":mcp --transport http --port ",
      PortStr(DefaultPort)>>

\* line 213
RunCommand(port) ==
    <<"fastmcp run ", "mcp/har_api_server.py", ":mcp --transport http --port ", PortStr(port)>>

\* lines 214-218: instructions
Instructions(port) ==
    <<"MCP server generated. To run it locally, execute:", NL>>
    \o RunCommand(port)
    \o <<NL, "Then connect your MCP client to http://127.0.0.1:", PortStr(port),
         ". See ", "mcp/README.md", " for details.">>

\* lines 207-219
FinalOutcome(fm, l, port) ==
    [success |-> Truthy(fm),
     final_message |-> fm,
     logs |-> LastHundred(l),
     mcp_server_path |-> RepoRoot \o <<"mcp", "har_api_server.py">>,
     run_command |-> RunCommand(port),
     instructions |-> Instructions(port)]

----------------------------------------------------------------------------
(* The invocation *)

\* lines 92-96: one entry of har_paths is resolved when relative, then tested
EntryCalls(p) ==
    (IF IsAbsolute(p) THEN <<>> ELSE <<[op |-> "resolve", path |-> RepoRoot \o p]>>)
    \o <<[op |-> "exists", path |-> ResolvedHar(p)]>>

\* lines 91-97: the filesystem calls of the loop over the first n entries
RECURSIVE PathCalls(_, _)
PathCalls(hars, n) ==
    IF n = 0 THEN <<>> ELSE PathCalls(hars, n - 1) \o EntryCalls(hars[n])

\* lines 106-112: the filesystem calls that make the output directory
OutDirCalls(output_dir) ==
    (IF Truthy(output_dir) /\ ~IsAbsolute(output_dir)
     THEN <<[op |-> "resolve", path |-> RepoRoot \o output_dir]>> ELSE <<>>)
    \o <<[op |-> "mkdir", path |-> OutDir(output_dir)]>>

\* an exception a statement of lines 173-202 raises (line 177: logs.append)
BodyExceptions == {[type |-> "MemoryError", msg |-> <<>>]}

\* asyncio.CancelledError, a BaseException
Cancelled == [type |-> "CancelledError", msg |-> <<>>]

\* lines 203-205: the except branch returns; the loop is not entered again
AfterRetry(n) == n + 1
AfterFailure(n) == n

(* The route, src/backend/app/api/routes/claude.py *)

NoHttp == [status |-> 0]

(* BrowserAgent, src/backend/app/services/browser_agent.py, and its routes *)

BrowserMethods == {"execute_instruction", "execute_with_har_recording"}

\* url, instruction, har_path, cookies_path
BrowserRequests ==
    [url : {<<"http://127.0.0.1:5000/">>},
     instruction : {<<"click fetch products">>, <<>>},
     har_path : {None, <<"/tmp/run.har">>},
     cookies_path : {None, <<"/tmp/cookies.json">>}]

\* what agent.run(), the constructors, storage_state() and close() raise
BrowserExceptions == {[type |-> "TimeoutError", msg |-> <<"Timeout 30000ms exceeded">>],
                      [type |-> "RuntimeError", msg |-> <<"browser closed">>]}

\* lines 126-129: the paths after the defaults
PathsOf(r) ==
    [har_path |-> IF r.har_path = None THEN <<"/cwd/network_requests.har">> ELSE r.har_path,
     cookies_path |-> IF r.cookies_path = None THEN <<"/cwd/cookies.json">>
                      ELSE r.cookies_path]

\* the paths a result carries: none for execute_instruction
WithPaths(method, r, res) ==
    IF method = "execute_with_har_recording" THEN res @@ PathsOf(r) ELSE res

\* lines 84-91, 177-186
BrowserSuccess(method, r, out) ==
    WithPaths(method, r,
        [url |-> r.url, instruction |-> r.instruction, success |-> TRUE,
         result |-> out,
         action_taken |-> <<IF method = "execute_with_har_recording"
                            THEN "Executed task with HAR recording: "
                            ELSE "Executed task: ">> \o r.instruction,
         error |-> None])

\* a failure that still reports an action
BrowserFailureWithAction(method, r, e) ==
    WithPaths(method, r,
        [url |-> r.url, instruction |-> r.instruction, success |-> FALSE,
         error |-> ExcText(e), result |-> None,
         action_taken |-> <<"Executed task: ">> \o r.instruction])

\* lines 93-102, 188-199
BrowserFailure(method, r, e) ==
    WithPaths(method, r,
        [url |-> r.url, instruction |-> r.instruction, success |-> FALSE,
         error |-> ExcText(e), result |-> None, action_taken |-> None])

\* browser.py lines 93-100, 134-143: the response copies the result key by key
BrowserRespond(res) == [status |-> 200, body |-> res]

IdleBrowser ==
    [pc |-> "idle", method |-> "none", req |-> <<>>, context |-> "none",
     exc |-> NoExc, saveExc |-> NoExc, closeExc |-> NoExc, result |-> NoResult,
     http |-> NoHttp]

(* ClaudeAgent, src/agent/agent.py *)

\* messages sent through one agent
MaxSends == 2

\* what receive_response() yields for one query: total_cost_usd in cents
AssistantReply == [type |-> "AssistantMessage", total_cost_usd |-> NoneInt]
SystemReply == [type |-> "SystemMessage", total_cost_usd |-> NoneInt]
ResultReply(cost) == [type |-> "ResultMessage", total_cost_usd |-> cost]
ResponseStreams ==
    {<<>>, <<AssistantReply, ResultReply(3)>>, <<SystemReply, ResultReply(NoneInt)>>}

\* what the SDK client raises from connect(), disconnect() and query()
ClientExceptions == {[type |-> "ProcessError", msg |-> <<"Command failed">>]}

\* lines 72-73, 136-137
NotConnected ==
    [type |-> "RuntimeError", msg |-> <<"Agent is not connected. Call connect() first.">>]

\* no call yet
NoCall == [op |-> "none", raised |-> NoExc, forwarded |-> FALSE, was_connected |-> FALSE,
           history |-> <<>>, cost |-> 0]

\* one call of a method: what it raised, whether it reached the client, and
\* the attributes it found
CallOf(a, op, raised, forwarded) ==
    [op |-> op, raised |-> raised, forwarded |-> forwarded,
     was_connected |-> a.is_connected,
     history |-> a.conversation_history, cost |-> a.total_cost]

\* lines 30-50
NewAgent ==
    [client |-> "none", is_connected |-> FALSE, conversation_history |-> <<>>,
     total_cost |-> 0, sends |-> 0, block |-> "out", last |-> NoCall]

\* lines 72, 136: `not self.client or not self.is_connected` is false
GuardOpen(a) == a.client # "none" /\ a.is_connected

\* lines 86-87
Kept(responses) ==
    SelectSeq(responses, LAMBDA m : m.type \in {"AssistantMessage", "ResultMessage"})

\* lines 90-92
RECURSIVE CostOf(_)
CostOf(responses) ==
    IF responses = <<>> THEN 0
    ELSE (IF Head(responses).type = "ResultMessage"
             /\ Head(responses).total_cost_usd # NoneInt
          THEN Head(responses).total_cost_usd ELSE 0) + CostOf(Tail(responses))

\* lines 65-68: the flag is cleared after the client's disconnect() returned
Disconnected(a, e) ==
    IF a.client # "none" /\ a.is_connected /\ e = NoExc
    THEN [a EXCEPT !.is_connected = FALSE] ELSE a

\* what disconnect() raises: the client's exception, when the client is called
DisconnectRaises(a, e) ==
    IF a.client # "none" /\ a.is_connected THEN e ELSE NoExc

(* Two invocations in one event loop *)

\* the locals of one coroutine frame of create_mcp_from_har
IdleRun == [pc |-> "idle", seen |-> <<>>, logs |-> <<>>, final_message |-> None,
            exc |-> NoExc, result |-> NoResult]

IdlePair == [i \in {1, 2} |-> IdleRun]

\* what the two streams yield
PairMessages ==
    {[type |-> "AssistantMessage", content |-> <<TextBlock(TerminalLine(DefaultPort))>>],
     [type |-> "AssistantMessage", content |-> <<TextBlock(<<"x">>)>>],
     [type |-> "AssistantMessage", content |-> <<ToolUse>>]}

\* accumulators kept in one place for both invocations
AccumulatorOfFirst(pair, i) ==
    [logs |-> pair[1].logs, final_message |-> pair[1].final_message]

\* lines 169-170: logs and final_message are locals of the call
Accumulator(pair, i) ==
    [logs |-> pair[i].logs, final_message |-> pair[i].final_message]

\* lines 79-87: ClaudeMcpFromHarResponse(**result); a missing key is None and
\* a key the model does not declare ("instructions") is dropped
Field(res, f, none) == IF f \in DOMAIN res THEN res[f] ELSE none

\* a response that never carries the error
ResponseModelWithoutError(res) ==
    [success |-> res.success,
     final_message |-> Field(res, "final_message", None),
     mcp_server_path |-> Field(res, "mcp_server_path", None),
     run_command |-> Field(res, "run_command", None),
     logs |-> Field(res, "logs", NoneList),
     error |-> None]

ResponseModel(res) ==
    [success |-> res.success,
     final_message |-> Field(res, "final_message", None),
     mcp_server_path |-> Field(res, "mcp_server_path", None),
     run_command |-> Field(res, "run_command", None),
     logs |-> Field(res, "logs", NoneList),
     error |-> Field(res, "error", None)]

\* lines 102-116: return ClaudeMcpFromHarResponse(**result)
Respond(res) == [status |-> 200, body |-> ResponseModel(res)]

\* lines 119-121: HTTPException(status_code=500, detail=f"MCP generation failed: {e}")
ServerError(e) ==
    [status |-> 500, detail |-> <<"MCP generation failed: ">> \o ExcText(e)]

InitRun ==
    /\ sdkAvailable \in BOOLEAN
    /\ pc = "idle"
    /\ req = NoRequest
    /\ sessionsOpened = 0
    /\ prompt = NoPrompt
    /\ options = NoOptions
    /\ consumed = <<>>
    /\ nMessages = 0
    /\ logs = <<>>
    /\ final_message = None
    /\ streamExc = NoExc
    /\ result = NoResult
    /\ dirs = {DefaultOutputDir}
    /\ fsOps = <<>>
    /\ sessionOpen = FALSE
    /\ procExc = NoExc
    /\ escaped = NoExc
    /\ http = NoHttp
    /\ prior = [n |-> 1, dirs |-> {DefaultOutputDir}]
    /\ sink = [up |-> TRUE, lines |-> <<>>]
    /\ callerTools = None
    /\ yielded = <<>>

Init == InitRun /\ inv = IdlePair /\ browser = IdleBrowser /\ agent = NewAgent

\* lines 84-88: the SDK is missing
CallSdkMissing(r) ==
    /\ pc = "idle"
    /\ r \in RequestsOfCall(prior.n)
    /\ ~sdkAvailable
    /\ req' = r
    /\ result' = SdkMissing
    /\ pc' = "returned"
    /\ http' = Respond(SdkMissing)
    /\ callerTools' = r.allowed_tools
    /\ UNCHANGED <<sdkAvailable, sessionsOpened, prompt, options, consumed,
                   nMessages, logs, final_message, streamExc, dirs, fsOps,
                   sessionOpen, procExc, escaped, inv, browser, agent, prior, sink, yielded>>

\* lines 91-97: a HAR file does not exist
CallHarNotFound(r) ==
    /\ pc = "idle"
    /\ r \in RequestsOfCall(prior.n)
    /\ sdkAvailable
    /\ FirstMissing(r.har_paths) # 0
    /\ req' = r
    /\ fsOps' = PathCalls(r.har_paths, FirstMissing(r.har_paths))
    /\ result' = HarNotFound(ResolvedHar(r.har_paths[FirstMissing(r.har_paths)]))
    /\ pc' = "returned"
    /\ http' = Respond(result')
    /\ callerTools' = r.allowed_tools
    /\ UNCHANGED <<sdkAvailable, sessionsOpened, prompt, options, consumed,
                   nMessages, logs, final_message, streamExc, dirs,
                   sessionOpen, procExc, escaped, inv, browser, agent, prior, sink, yielded>>

\* lines 106-112: out_dir.mkdir raises; no try encloses it, so the exception
\* leaves the function and the route's `except Exception` answers (lines 119-121)
CallMkdirRaises(r) ==
    /\ pc = "idle"
    /\ r \in RequestsOfCall(prior.n)
    /\ sdkAvailable
    /\ FirstMissing(r.har_paths) = 0
    /\ MkdirFails(OutDir(r.output_dir), dirs)
    /\ req' = r
    /\ fsOps' = PathCalls(r.har_paths, Len(r.har_paths)) \o OutDirCalls(r.output_dir)
    /\ escaped' = FileExists(OutDir(r.output_dir))
    /\ pc' = "raised"
    /\ http' = ServerError(escaped')
    /\ callerTools' = r.allowed_tools
    /\ UNCHANGED <<sdkAvailable, sessionsOpened, prompt, options, consumed,
                   nMessages, logs, final_message, streamExc, result, dirs,
                   sessionOpen, procExc, inv, browser, agent, prior, sink, yielded>>

\* lines 91-172: validation passes, query(prompt, options) is called; `up`
\* is whether the writes of the logging sink succeed during this run, and the
\* failing sink is explored for the requests of the logging group
CallOpenSession(r, up) ==
    /\ pc = "idle"
    /\ r \in RequestsOfCall(prior.n)
    /\ sdkAvailable
    /\ FirstMissing(r.har_paths) = 0
    /\ ~MkdirFails(OutDir(r.output_dir), dirs)
    /\ up \/ r \in LoggingRequests
    /\ req' = r
    /\ fsOps' = PathCalls(r.har_paths, Len(r.har_paths)) \o OutDirCalls(r.output_dir)
    /\ dirs' = dirs \cup {OutDir(r.output_dir)}
    /\ prompt' = MakePrompt(r)
    /\ callerTools' = CallerListAfter(r.allowed_tools, r.allow_bash)
    /\ options' = MakeOptions(r)
    /\ sessionsOpened' = sessionsOpened + 1
    /\ sessionOpen' = TRUE
    /\ logs' = <<>>
    /\ final_message' = None
    /\ sink' = [up |-> up, lines |-> <<>>]
    /\ pc' = "streaming"
    /\ UNCHANGED <<sdkAvailable, consumed, nMessages, streamExc, result,
                   procExc, escaped, http, inv, browser, agent, prior, yielded>>

\* lines 172-202: the stream yields one message, every block of which can be
\* rendered
OnMessage(m) ==
    /\ pc = "streaming"
    /\ nMessages < MsgBudget(prior.n, req)
    /\ FirstUnprintable(ContentOf(m)) = 0
    /\ LET acc == OnBlocks([logs |-> logs, final_message |-> final_message], ContentOf(m))
       IN /\ logs' = acc.logs
          /\ final_message' = acc.final_message
    /\ sink' = [sink EXCEPT !.lines = @ \o SinkWrite(sink.up, SinkLines(req.stream_logs, ContentOf(m)))]
    /\ consumed' = consumed \o ContentOf(m)
    /\ yielded' = Append(yielded, m)
    /\ nMessages' = nMessages + 1
    /\ UNCHANGED <<sdkAvailable, pc, req, sessionsOpened, prompt, options,
                   streamExc, result, dirs, fsOps, sessionOpen, procExc,
                   escaped, http, inv, browser, agent, prior, callerTools>>

\* lines 172-205: the stream yields a message with a tool block whose payload
\* raises in the f-string of line 187 or 197 and again in the f-string of the
\* fallback (line 189 or 199), which renders the same payload through the
\* block; the blocks before it are processed, the exception leaves the inner
\* try, `except Exception` (line 203) returns, and the generator stays open
OnMessageRaises(m) ==
    /\ pc = "streaming"
    /\ nMessages < MsgBudget(prior.n, req)
    /\ FirstUnprintable(ContentOf(m)) # 0
    /\ LET before == SubSeq(ContentOf(m), 1, FirstUnprintable(ContentOf(m)) - 1)
           acc == OnBlocks([logs |-> logs, final_message |-> final_message], before)
       IN /\ logs' = acc.logs
          /\ final_message' = acc.final_message
          /\ sink' = [sink EXCEPT !.lines = @ \o SinkWrite(sink.up, SinkLines(req.stream_logs, before))]
          /\ consumed' = consumed \o before
          /\ result' = ErrorOutcome(ReprError, acc.logs)
    /\ yielded' = Append(yielded, m)
    /\ nMessages' = nMessages + 1
    /\ procExc' = ReprError
    /\ sessionsOpened' = AfterFailure(sessionsOpened)
    /\ pc' = "returned"
    /\ http' = Respond(result')
    /\ UNCHANGED <<sdkAvailable, req, prompt, options, streamExc, dirs, fsOps,
                   sessionOpen, escaped, inv, browser, agent, prior, callerTools>>

\* lines 172, 203-205: the stream raises; a generator that raised is finished
StreamError(e) ==
    /\ pc = "streaming"
    /\ streamExc' = e
    /\ sessionOpen' = FALSE
    /\ sessionsOpened' = AfterFailure(sessionsOpened)
    /\ result' = ErrorOutcome(e, logs)
    /\ pc' = "returned"
    /\ http' = Respond(result')
    /\ UNCHANGED <<sdkAvailable, req, prompt, options, consumed,
                   nMessages, logs, final_message, dirs, fsOps, procExc,
                   escaped, inv, browser, agent,
                   prior, sink, callerTools, yielded>>

\* lines 173-205: the stream yields a message and a statement of the loop body
\* raises before the message is recorded; `except Exception` returns, and
\* nothing closes the generator, which stays suspended at its yield
ProcessingRaises(m, e) ==
    /\ pc = "streaming"
    /\ nMessages < MsgBudget(prior.n, req)
    /\ ContentOf(m) # <<>>
    /\ yielded' = Append(yielded, m)
    /\ nMessages' = nMessages + 1
    /\ procExc' = e
    /\ sessionsOpened' = AfterFailure(sessionsOpened)
    /\ result' = ErrorOutcome(e, logs)
    /\ pc' = "returned"
    /\ http' = Respond(result')
    /\ UNCHANGED <<sdkAvailable, req, prompt, options, consumed,
                   logs, final_message, streamExc, dirs, fsOps, sessionOpen,
                   escaped, inv, browser, agent,
                   prior, sink, callerTools>>

\* line 172: the caller cancels the task while it awaits the next message;
\* CancelledError is thrown into the generator, which finishes, and is not an
\* Exception: neither line 203 nor the route's line 119 catches it
Cancel ==
    /\ pc = "streaming"
    /\ sessionOpen' = FALSE
    /\ escaped' = Cancelled
    /\ pc' = "cancelled"
    /\ UNCHANGED <<sdkAvailable, req, sessionsOpened, prompt, options, consumed,
                   nMessages, logs, final_message, streamExc, result, dirs,
                   fsOps, procExc, http, inv, browser, agent,
                   prior, sink, callerTools, yielded>>

\* lines 172, 207-220: the stream ends; an exhausted generator is finished
StreamEnd ==
    /\ pc = "streaming"
    /\ sessionOpen' = FALSE
    /\ result' = FinalOutcome(final_message, logs, prompt.port)
    /\ pc' = "returned"
    /\ http' = Respond(result')
    /\ UNCHANGED <<sdkAvailable, req, sessionsOpened, prompt, options, consumed,
                   nMessages, logs, final_message, streamExc, dirs, fsOps,
                   procExc, escaped, inv, browser, agent,
                   prior, sink, callerTools, yielded>>

\* after the return: the interpreter finalizes the abandoned generator
FinalizeAbandoned ==
    /\ pc = "returned"
    /\ sessionOpen
    /\ sessionOpen' = FALSE
    /\ UNCHANGED <<sdkAvailable, pc, req, sessionsOpened, prompt, options,
                   consumed, nMessages, logs, final_message, streamExc, result,
                   dirs, fsOps, procExc, escaped, http, inv, browser, agent,
                   prior, sink, callerTools, yielded>>

\* route line 104 and lines 37-42: the next request is served by a new
\* service, whose constructor makes <repo>/mcp again, on the disk the call
\* before it left
CallAgain ==
    /\ pc \in {"returned", "raised", "cancelled"}
    /\ ~sessionOpen
    /\ prior.n < MaxCalls
    /\ ~MkdirFails(DefaultOutputDir, dirs)
    /\ prior' = [n |-> prior.n + 1, dirs |-> dirs \cup {DefaultOutputDir}]
    /\ dirs' = dirs \cup {DefaultOutputDir}
    /\ pc' = "idle"
    /\ req' = NoRequest
    /\ sessionsOpened' = 0
    /\ prompt' = NoPrompt
    /\ options' = NoOptions
    /\ consumed' = <<>>
    /\ nMessages' = 0
    /\ logs' = <<>>
    /\ final_message' = None
    /\ streamExc' = NoExc
    /\ result' = NoResult
    /\ fsOps' = <<>>
    /\ procExc' = NoExc
    /\ escaped' = NoExc
    /\ http' = NoHttp
    /\ sink' = [up |-> TRUE, lines |-> <<>>]
    /\ callerTools' = None
    /\ yielded' = <<>>
    /\ UNCHANGED <<sdkAvailable, sessionOpen, inv, browser, agent>>

Next ==
    \/ \E r \in Requests : CallSdkMissing(r)
    \/ \E r \in Requests : CallHarNotFound(r)
    \/ \E r \in Requests : CallMkdirRaises(r)
    \/ \E r \in Requests, up \in BOOLEAN : CallOpenSession(r, up)
    \/ \E m \in Messages : OnMessage(m)
    \/ \E m \in Messages : OnMessageRaises(m)
    \/ \E e \in Exceptions : StreamError(e)
    \/ \E m \in {PlainMessage}, e \in BodyExceptions : ProcessingRaises(m, e)
    \/ Cancel
    \/ StreamEnd
    \/ FinalizeAbandoned
    \/ CallAgain

Spec == Init /\ [][Next]_vars

\* lines 91-172 for the plain request: invocation i opens its session
PairOpen(i) ==
    /\ sdkAvailable
    /\ inv[i].pc = "idle"
    /\ inv' = [inv EXCEPT ![i].pc = "streaming",
                          ![i].logs = <<>>,
                          ![i].final_message = None]
    /\ UNCHANGED <<runVars, browser, agent>>

\* lines 172-202: invocation i resumes at its await with one message
PairOnMessage(i, m) ==
    /\ inv[i].pc = "streaming"
    /\ Len(inv[i].seen) < MaxMsgs
    /\ LET acc == OnBlocks(Accumulator(inv, i), ContentOf(m))
       IN inv' = [inv EXCEPT ![i].logs = acc.logs,
                             ![i].final_message = acc.final_message,
                             ![i].seen = Append(@, m)]
    /\ UNCHANGED <<runVars, browser, agent>>

\* lines 203-205: the stream of invocation i raises
PairStreamError(i, e) ==
    /\ inv[i].pc = "streaming"
    /\ inv' = [inv EXCEPT ![i].pc = "returned",
                          ![i].exc = e,
                          ![i].result = ErrorOutcome(e, inv[i].logs)]
    /\ UNCHANGED <<runVars, browser, agent>>

\* lines 207-220: the stream of invocation i ends
PairStreamEnd(i) ==
    /\ inv[i].pc = "streaming"
    /\ inv' = [inv EXCEPT ![i].pc = "returned",
                          ![i].result = FinalOutcome(inv[i].final_message,
                                                     inv[i].logs, DefaultPort)]
    /\ UNCHANGED <<runVars, browser, agent>>

NextPair ==
    \/ \E i \in {1, 2} : PairOpen(i)
    \/ \E i \in {1, 2}, m \in PairMessages : PairOnMessage(i, m)
    \/ \E i \in {1, 2}, e \in Exceptions : PairStreamError(i, e)
    \/ \E i \in {1, 2} : PairStreamEnd(i)

\* the SDK is installed
InitPair == Init /\ sdkAvailable

SpecPair == InitPair /\ [][NextPair]_vars

----------------------------------------------------------------------------
(* One call of a BrowserAgent method *)

\* lines 63-80, 122-153: the task, the session and the agent are built and
\* agent.run() is awaited
BrowserCall(m, r) ==
    /\ browser.pc = "idle"
    /\ m = "execute_instruction" => r.har_path = None /\ r.cookies_path = None
    /\ browser' = [browser EXCEPT !.pc = "run", !.method = m, !.req = r]
    /\ UNCHANGED <<runVars, inv, agent>>

\* lines 74-77, 132-150 and 93-102, 188-199: a constructor raises
BrowserBuildRaises(m, r, e) ==
    /\ browser.pc = "idle"
    /\ m = "execute_instruction" => r.har_path = None /\ r.cookies_path = None
    /\ browser' = [browser EXCEPT !.pc = "returned", !.method = m, !.req = r,
                                  !.exc = e,
                                  !.result = BrowserFailure(m, r, e),
                                  !.http = BrowserRespond(BrowserFailure(m, r, e))]
    /\ UNCHANGED <<runVars, inv, agent>>

\* during agent.run(): the session starts its browser context, which records
\* the HAR
BrowserContextOpens ==
    /\ browser.pc = "run"
    /\ browser.context = "none"
    /\ browser' = [browser EXCEPT !.context = "live"]
    /\ UNCHANGED <<runVars, inv, agent>>

\* lines 80, 153 and 93-102, 188-199: agent.run() raises; the method returns
\* the failure from its except branch and no statement of it closes the
\* context; the library may have closed it on its way out
BrowserRunRaises(e, closedByLibrary) ==
    /\ browser.pc = "run"
    /\ browser' = [browser EXCEPT
            !.pc = "returned",
            !.context = IF closedByLibrary /\ @ = "live" THEN "closed" ELSE @,
            !.exc = e,
            !.result = BrowserFailure(browser.method, browser.req, e),
            !.http = BrowserRespond(BrowserFailure(browser.method, browser.req, e))]
    /\ UNCHANGED <<runVars, inv, agent>>

\* lines 80-91, 153: agent.run() returns; the library may have closed the
\* context itself, after which browser_session.context is None
BrowserRunCompletes(closedByLibrary) ==
    /\ browser.pc = "run"
    /\ LET ctx == IF closedByLibrary /\ browser.context = "live" THEN "closed"
                  ELSE browser.context
           res == BrowserSuccess(browser.method, browser.req, <<"AgentHistoryList(...)">>)
       IN browser' =
            IF browser.method = "execute_instruction"
            THEN [browser EXCEPT !.pc = "returned", !.context = ctx,
                                 !.result = res, !.http = BrowserRespond(res)]
            ELSE [browser EXCEPT !.pc = "save", !.context = ctx]
    /\ UNCHANGED <<runVars, inv, agent>>

\* lines 156-166: storage_state is saved when the context is there; a failure
\* is logged
BrowserSaveState(e) ==
    /\ browser.pc = "save"
    /\ browser' = [browser EXCEPT
            !.pc = "close",
            !.saveExc = IF browser.context = "live" THEN e ELSE NoExc]
    /\ UNCHANGED <<runVars, inv, agent>>

\* lines 167-186: the context is closed when it is there; a failure is
\* logged; the method returns the success result
BrowserCloseContext(e) ==
    /\ browser.pc = "close"
    /\ LET res == BrowserSuccess(browser.method, browser.req, <<"AgentHistoryList(...)">>)
       IN browser' = [browser EXCEPT
            !.pc = "returned",
            !.context = IF browser.context = "live" /\ e = NoExc THEN "closed" ELSE @,
            !.closeExc = IF browser.context = "live" THEN e ELSE NoExc,
            !.result = res,
            !.http = BrowserRespond(res)]
    /\ UNCHANGED <<runVars, inv, agent>>

NextBrowser ==
    \/ \E m \in BrowserMethods, r \in BrowserRequests : BrowserCall(m, r)
    \/ \E m \in BrowserMethods, r \in BrowserRequests, e \in BrowserExceptions :
            BrowserBuildRaises(m, r, e)
    \/ BrowserContextOpens
    \/ \E e \in BrowserExceptions, c \in BOOLEAN : BrowserRunRaises(e, c)
    \/ \E c \in BOOLEAN : BrowserRunCompletes(c)
    \/ \E e \in BrowserExceptions \cup {NoExc} : BrowserSaveState(e)
    \/ \E e \in BrowserExceptions \cup {NoExc} : BrowserCloseContext(e)

SpecBrowser == InitPair /\ [][NextBrowser]_vars

----------------------------------------------------------------------------
(* A ClaudeAgent and its caller *)

\* lines 52-61
AgentConnect(e) ==
    /\ agent' = [agent EXCEPT
            !.client = "set",
            !.is_connected = IF e = NoExc THEN TRUE ELSE @,
            !.last = CallOf(agent, "connect", e, FALSE)]
    /\ UNCHANGED <<runVars, inv, browser>>

\* lines 63-68
AgentDisconnect(e) ==
    /\ agent' = [Disconnected(agent, e) EXCEPT
            !.last = CallOf(agent, "disconnect", DisconnectRaises(agent, e), FALSE)]
    /\ UNCHANGED <<runVars, inv, browser>>

\* lines 70-101: the query is sent and the whole response consumed
AgentSend(responses) ==
    /\ agent.sends < MaxSends
    /\ agent' =
         IF GuardOpen(agent)
         THEN [agent EXCEPT
                !.conversation_history = @ \o Kept(responses),
                !.total_cost = @ + CostOf(responses),
                !.sends = @ + 1,
                !.last = CallOf(agent, "send_message", NoExc, TRUE)]
         ELSE [agent EXCEPT
                !.sends = @ + 1,
                !.last = CallOf(agent, "send_message", NotConnected, FALSE)]
    /\ UNCHANGED <<runVars, inv, browser>>

\* lines 80-83, 103-108: the client's query() raises
AgentSendRaises(e) ==
    /\ agent.sends < MaxSends
    /\ GuardOpen(agent)
    /\ agent' = [agent EXCEPT
            !.sends = @ + 1,
            !.last = CallOf(agent, "send_message", e, TRUE)]
    /\ UNCHANGED <<runVars, inv, browser>>

\* lines 134-139
AgentGetServerInfo ==
    /\ agent.last.op # "get_server_info"
    /\ agent' = [agent EXCEPT
            !.last = CallOf(agent, "get_server_info",
                            IF GuardOpen(agent) THEN NoExc ELSE NotConnected,
                            GuardOpen(agent))]
    /\ UNCHANGED <<runVars, inv, browser>>

\* lines 149-152: `async with ClaudeAgent(...)` enters when connect() returned
AgentEnter(e) ==
    /\ agent.block = "out"
    /\ agent.last.op = "none"
    /\ agent' = [agent EXCEPT
            !.client = "set",
            !.is_connected = IF e = NoExc THEN TRUE ELSE @,
            !.block = IF e = NoExc THEN "in" ELSE "out",
            !.last = CallOf(agent, "__aenter__", e, FALSE)]
    /\ UNCHANGED <<runVars, inv, browser>>

\* lines 154-156: the block is left, whatever disconnect() does
AgentExit(e) ==
    /\ agent.block = "in"
    /\ agent' = [Disconnected(agent, e) EXCEPT
            !.block = "out",
            !.last = CallOf(agent, "__aexit__", DisconnectRaises(agent, e), FALSE)]
    /\ UNCHANGED <<runVars, inv, browser>>

NextAgent ==
    \/ \E e \in ClientExceptions \cup {NoExc} : AgentConnect(e)
    \/ \E e \in ClientExceptions \cup {NoExc} : AgentDisconnect(e)
    \/ \E rs \in ResponseStreams : AgentSend(rs)
    \/ \E e \in ClientExceptions : AgentSendRaises(e)
    \/ AgentGetServerInfo
    \/ \E e \in ClientExceptions \cup {NoExc} : AgentEnter(e)
    \/ \E e \in ClientExceptions \cup {NoExc} : AgentExit(e)

SpecAgent == InitPair /\ [][NextAgent]_vars

----------------------------------------------------------------------------
(* Vocabulary of the properties *)

Range(l) == {l[i] : i \in 1..Len(l)}
Count(x, l) == Cardinality({i \in 1..Len(l) : l[i] = x})
Without(x, l) == LET Keep(y) == y # x IN SelectSeq(l, Keep)

Returned == pc = "returned"
\* the invocation opened its session on a non-empty list of existing files
RanOnFiles == sessionsOpened > 0 /\ req.har_paths # <<>>
CleanEnd ==
    pc = "returned" /\ sessionsOpened > 0 /\ streamExc = NoExc /\ procExc = NoExc
Raised == pc = "returned" /\ streamExc # NoExc

\* the text, surrounding whitespace aside, ends in a line that is exactly the
\* terminal line for the port
EndsInTerminalLine(text, port) ==
    LET body == Strip(text)
        n == Len(body)
    IN /\ n >= 2
       /\ SubSeq(body, n - 1, n) = TerminalLine(port)
       /\ (n = 2 \/ body[n - 2] = NL)

\* a Text event carrying the terminal line of this invocation was consumed
SawTerminalLine ==
    \E i \in 1..Len(consumed) :
        /\ consumed[i].type = "TextBlock"
        /\ consumed[i].text # None
        /\ EndsInTerminalLine(consumed[i].text, EffectivePort(req.port))

\* number of Text, CapabilityInvocation and CapabilityResult events consumed
LoggedEvents ==
    Cardinality({i \in 1..Len(consumed) :
        consumed[i].type \in {"TextBlock", "ToolUseBlock", "ToolResultBlock"}})

\* what is on disk in the modelled scenario, and where each sample path points
ExistingHars == {HarA}
PointsTo(p) == CASE p = HarA -> <<"/", "repo", "backend", "a.har">>
                 [] p = HarMissingRel -> <<"/", "nope.har">>
                 [] p = HarMissingAbs -> <<"/", "tmp", "gone.har">>
MissingEntries(hars) == {i \in 1..Len(hars) : hars[i] \notin ExistingHars}
NamesMissingFile(error, hars) ==
    \E i \in MissingEntries(hars) : error = <<"HAR file not found: ">> \o PointsTo(hars[i])

----------------------------------------------------------------------------
(* Properties *)

C2_TerminalLineIsFinalMessage ==
    (CleanEnd /\ RanOnFiles /\ SawTerminalLine)
        => (result.success /\ result.final_message = TerminalLine(EffectivePort(req.port)))

\* C3: when the stream ends cleanly and no Text event's last line is exactly the
\* terminal line for the effective port, success is false.
C3_NoTerminalLineNoSuccess ==
    (CleanEnd /\ RanOnFiles /\ ~SawTerminalLine) => ~result.success

\* C4 as stated: a request with a har_paths entry that does not exist returns
\* success == false with an error naming the missing file, and no session is
\* opened.
C4_MissingHarNamedInError ==
    (Returned /\ MissingEntries(req.har_paths) # {})
        => /\ ~result.success
           /\ NamesMissingFile(result.error, req.har_paths)
           /\ sessionsOpened = 0

\* C4 amended: a request with a har_paths entry that does not exist returns
\* success == false and no session is opened; when the SDK is installed the
\* error names the first missing file, otherwise it reports the missing SDK.
C4_MissingHarFailsBeforeSession ==
    (pc # "idle" /\ MissingEntries(req.har_paths) # {})
        => /\ sessionsOpened = 0
           /\ Returned
           /\ ~result.success
           /\ LET first == CHOOSE i \in MissingEntries(req.har_paths) :
                               \A j \in MissingEntries(req.har_paths) : i <= j
              IN IF sdkAvailable
                 THEN result.error = <<"HAR file not found: ">> \o PointsTo(req.har_paths[first])
                 ELSE result.error = <<"claude-code-sdk is not installed">>

\* C4 witness: the second of two entries is the missing one
C4_Witness ==
    /\ Returned /\ sdkAvailable
    /\ req.har_paths = <<HarA, HarMissingRel>>
    /\ result.error = <<"HAR file not found: ", "/", "nope.har">>

\* C5: a request with an empty har_paths list is rejected during validation and
\* never opens a session.
C5_EmptyListRejected ==
    (pc # "idle" /\ sdkAvailable /\ req.har_paths = <<>>)
        => (sessionsOpened = 0 /\ Returned /\ ~result.success)

\* C6: when the stream raises after k events have been logged, the outcome is
\* success == false, error the text of the exception, and logs exactly the k
\* entries accumulated before it, in arrival order.
C6_StreamErrorKeepsPartialLogs ==
    Raised
        => /\ result = [success |-> FALSE, error |-> streamExc.msg, logs |-> logs]
           /\ Len(result.logs) = LoggedEvents

\* C6 witness: the stream raised after more events than the final outcome keeps
C6_Witness == Raised /\ Len(result.logs) = LogLimit + 1 /\ LoggedEvents = LogLimit + 1

\* C7: on clean completion with more than 100 logged events the returned logs are
\* the last 100 accumulated entries in arrival order; with 100 or fewer they
\* are the whole accumulated list.
C7_CleanEndKeepsLastHundred ==
    CleanEnd
        => LET n == Len(logs)
               out == result.logs
           IN /\ n = LoggedEvents
              /\ IF n > LogLimit
                 THEN /\ Len(out) = LogLimit
                      /\ \A i \in 1..LogLimit : out[i] = logs[n - LogLimit + i]
                 ELSE out = logs

\* C7 witness: more than 100 events, and the entries kept are not the first 100
C7_Witness ==
    /\ CleanEnd
    /\ Len(logs) > LogLimit
    /\ Len(result.logs) = LogLimit
    /\ result.logs # SubSeq(logs, 1, LogLimit)

\* C8: every returned outcome that carries a logs list has at most 100 entries.
C8_LogsAtMostHundred ==
    (Returned /\ RanOnFiles /\ "logs" \in DOMAIN result) => Len(result.logs) <= LogLimit

\* C9 as stated: with allow_bash == false, 'Bash' is not in the grant passed to
\* the session, whatever allow-list the caller supplied.
C9_NoBashWithoutFlag ==
    (sessionsOpened > 0 /\ ~req.allow_bash) => "Bash" \notin Range(options.allowed_tools)

\* C9 amended: with allow_bash == false, 'Bash' is in the grant passed to the
\* session exactly when the caller's own allow-list contains it; with the
\* allow-list absent, empty or naming only other capabilities it is not.
C9_NoBashUnlessListed ==
    (sessionsOpened > 0 /\ ~req.allow_bash)
        => ("Bash" \in Range(options.allowed_tools)
                <=> (req.allowed_tools # None /\ "Bash" \in Range(req.allowed_tools)))

\* C9 witness: other capabilities listed explicitly, the flag not set
C9_Witness ==
    /\ sessionsOpened > 0 /\ ~req.allow_bash
    /\ req.allowed_tools = <<"Read", "Read">>
    /\ options.allowed_tools = <<"Read", "Read">>

\* C10 as stated: with allow_bash == true, 'Bash' occurs exactly once in the
\* grant, and the other capabilities keep their order.
C10_BashExactlyOnce ==
    (sessionsOpened > 0 /\ req.allow_bash)
        => LET base == IF req.allowed_tools = None THEN DefaultTools ELSE req.allowed_tools
           IN /\ Count("Bash", options.allowed_tools) = 1
              /\ Without("Bash", options.allowed_tools) = Without("Bash", base)

\* C10 amended: with allow_bash == true, the grant is the caller's (or default)
\* list unchanged when it already names 'Bash', and that list with 'Bash'
\* appended otherwise: 'Bash' occurs once unless the caller listed it several
\* times, and the other capabilities keep their order.
C10_BashAppendedOnlyIfAbsent ==
    (sessionsOpened > 0 /\ req.allow_bash)
        => LET base == IF req.allowed_tools = None THEN DefaultTools ELSE req.allowed_tools
           IN /\ Count("Bash", options.allowed_tools)
                    = (IF Count("Bash", base) = 0 THEN 1 ELSE Count("Bash", base))
              /\ Without("Bash", options.allowed_tools) = Without("Bash", base)
              /\ options.allowed_tools \in {base, base \o <<"Bash">>}

\* C10 witness: the caller listed 'Bash' and set the flag too
C10_Witness ==
    /\ sessionsOpened > 0 /\ req.allow_bash
    /\ req.allowed_tools = <<"Bash", "Read">>
    /\ options.allowed_tools = <<"Bash", "Read">>

\* C11: when the SDK is unavailable, a call returns at once the failure
\* outcome whose error is 'claude-code-sdk is not installed': it has made no
\* filesystem call (no path resolved or tested, no directory made) and has
\* opened no session, whatever the request holds.
C11_SdkMissingFailsAtOnce ==
    (pc # "idle" /\ ~sdkAvailable) =>
        /\ pc = "returned"
        /\ result = [success |-> FALSE,
                     error |-> <<"claude-code-sdk is not installed">>]
        /\ fsOps = <<>>
        /\ dirs = {DefaultOutputDir}
        /\ sessionsOpened = 0
        /\ ~sessionOpen
        /\ escaped = NoExc

\* the SDK is missing and the request names a file that does not exist
C11_Witness ==
    /\ pc = "returned"
    /\ ~sdkAvailable
    /\ MissingEntries(req.har_paths) # {}

\* C12: no failure past input validation leaves create_mcp_from_har as an
\* exception: a missing SDK, a failure to make the output directory and a
\* failure while the stream is consumed all end in a returned outcome with
\* success == false and an error string.
C12_FailuresAreReturnedOutcomes ==
    /\ pc # "raised"
    /\ (pc = "returned" /\ (~sdkAvailable \/ streamExc # NoExc \/ procExc # NoExc)) =>
            /\ result.success = FALSE
            /\ "error" \in DOMAIN result

\* C13: the missing-dependency failure and the incomplete run (the stream
\* ended cleanly and no terminal line was consumed) both reach the client as a
\* 200 response with success == false and a non-null error.
C13_ExpectedFailuresCarryError ==
    (pc = "returned" /\ (~sdkAvailable \/ (CleanEnd /\ RanOnFiles /\ ~SawTerminalLine))) =>
        /\ http.status = 200
        /\ http.body.success = FALSE
        /\ http.body.error # None

\* C14: a request that names a missing HAR file is answered with a 4xx status.
C14_MissingInputIsClientError ==
    (pc # "idle" /\ sdkAvailable /\ MissingEntries(req.har_paths) # {}) =>
        http.status \in 400..499

\* C15: every outcome the service returns is answered with a 200 whose six
\* fields equal the same-named entries of the outcome, null where the outcome
\* has no such entry; an exception the service raises is answered with a 500
\* whose detail carries the text of the exception.
C15_ResponseMirrorsOutcome ==
    /\ pc = "returned" =>
        /\ http.status = 200
        /\ DOMAIN http.body = {"success", "final_message", "mcp_server_path",
                               "run_command", "logs", "error"}
        /\ \A f \in DOMAIN http.body :
              http.body[f] = IF f \in DOMAIN result THEN result[f]
                             ELSE IF f = "logs" THEN NoneList ELSE None
    /\ pc = "raised" =>
        /\ http.status = 500
        /\ http.detail = <<"MCP generation failed: ">> \o escaped.msg

\* a stream error was answered: the outcome has error and logs and lacks the
\* final message, the path and the command
C15_Witness ==
    /\ pc = "returned"
    /\ streamExc # NoExc
    /\ logs # <<>>
    /\ http.status = 200
    /\ http.body.error = streamExc.msg
    /\ http.body.final_message = None

\* C16 as stated: the session gets the caller's turn budget when one is set
\* and 20 when none is, and the terminal line of the instruction and
\* run_command carry the caller's port when one is set and 8111 when none is.
C16_SetValuesAreUsed ==
    LET turns == IF req.max_turns = NoneInt THEN 20 ELSE req.max_turns
        port == IF req.port = NoneInt THEN 8111 ELSE req.port
    IN /\ RanOnFiles =>
            /\ options.max_turns = turns
            /\ prompt.final_line = <<Marker, PortStr(port)>>
       /\ (CleanEnd /\ RanOnFiles) =>
            result.run_command[Len(result.run_command)] = PortStr(port)

\* C16: the session gets the caller's turn budget when it is set and not zero,
\* and 20 when it is unset or zero; the terminal line of the instruction and
\* run_command carry the caller's port when it is set and not zero, and 8111
\* when it is unset or zero.
C16_NonZeroValuesAreUsed ==
    LET turns == IF req.max_turns \in {NoneInt, 0} THEN 20 ELSE req.max_turns
        port == IF req.port \in {NoneInt, 0} THEN 8111 ELSE req.port
    IN /\ RanOnFiles =>
            /\ options.max_turns = turns
            /\ prompt.final_line = <<Marker, PortStr(port)>>
       /\ (CleanEnd /\ RanOnFiles) =>
            result.run_command[Len(result.run_command)] = PortStr(port)

\* a session ran to a clean end with a turn budget of the caller
C16_Witness ==
    /\ CleanEnd
    /\ req.max_turns = 5
    /\ options.max_turns = 5
    /\ result.run_command[Len(result.run_command)] = "8111"

C18_SessionOpenedAtMostOnce ==
    /\ sessionsOpened <= 1
    /\ (pc = "returned" /\ sdkAvailable /\ MissingEntries(req.har_paths) # {}) =>
            sessionsOpened = 0
    /\ (pc = "returned" /\ (streamExc # NoExc \/ procExc # NoExc)) =>
            sessionsOpened = 1
    /\ (CleanEnd /\ ~result.success) => sessionsOpened = 1

\* the invocation returned the failure of a stream error after some messages
C18_Witness ==
    /\ pc = "returned"
    /\ streamExc # NoExc
    /\ nMessages > 0
    /\ sessionsOpened = 1

\* C19: when an invocation has ended, by returning an outcome, by raising or
\* by being cancelled, the session it opened is no longer open.
C19_SessionReleasedOnEveryExit ==
    pc \in {"returned", "raised", "cancelled"} => ~sessionOpen

\* the accumulators of one invocation that consumes the messages alone
RECURSIVE AloneOver(_)
AloneOver(msgs) ==
    IF msgs = <<>> THEN [logs |-> <<>>, final_message |-> None]
    ELSE OnBlocks(AloneOver(SubSeq(msgs, 1, Len(msgs) - 1)),
                  ContentOf(msgs[Len(msgs)]))

\* the outcome of one invocation that consumes the messages alone
AloneOutcome(msgs, exc) ==
    LET acc == AloneOver(msgs)
    IN IF exc = NoExc THEN FinalOutcome(acc.final_message, acc.logs, DefaultPort)
       ELSE ErrorOutcome(exc, acc.logs)

\* C20: with the steps of two invocations interleaved message by message, the
\* outcome each one returns (success, final_message, logs; after a stream
\* error: success, error, logs) is the outcome of that invocation consuming
\* its own messages alone: nothing of the other invocation's stream is in it.
C20_OutcomeAsIfAlone ==
    \A i \in {1, 2} :
        inv[i].pc = "returned" =>
            LET alone == AloneOutcome(inv[i].seen, inv[i].exc)
                res == inv[i].result
            IN /\ res.success = alone.success
               /\ res.logs = alone.logs
               /\ inv[i].exc = NoExc => res.final_message = alone.final_message
               /\ inv[i].exc # NoExc => res.error = alone.error
               /\ \A k \in 1..Len(res.logs) :
                     \E j \in 1..Len(inv[i].seen) :
                         \E b \in 1..Len(inv[i].seen[j].content) :
                             res.logs[k] = LogEntry(inv[i].seen[j].content[b])

\* both invocations returned after their messages interleaved, the first with
\* the terminal line and the second without it
C20_Witness ==
    /\ inv[1].pc = "returned" /\ inv[2].pc = "returned"
    /\ inv[1].result.success = TRUE
    /\ inv[2].exc = NoExc
    /\ inv[2].result.success = FALSE
    /\ Len(inv[1].seen) = 2 /\ Len(inv[2].seen) = 2
    /\ inv[2].result.logs # inv[1].result.logs

C22_MkdirIdempotent ==
    LET reached == pc # "idle" /\ sdkAvailable /\ MissingEntries(req.har_paths) = {}
    IN /\ (reached /\ OutDir(req.output_dir) \in prior.dirs) =>
            /\ pc # "raised"
            /\ escaped.type # "FileExistsError"
            /\ dirs = prior.dirs
       /\ (reached /\ pc # "raised") => OutDir(req.output_dir) \in dirs
       /\ DefaultOutputDir \in dirs
       /\ prior.dirs \subseteq dirs

\* the second call with output_dir 'out' returned; the first one made the
\* directory
C22_Witness ==
    /\ prior.n = 2
    /\ pc = "returned"
    /\ sessionsOpened = 1
    /\ req.output_dir = <<"out">>
    /\ <<"/", "repo", "out">> \in prior.dirs
    /\ <<"mkdir", <<"/", "repo", "out">>>> = <<fsOps[Len(fsOps)].op, fsOps[Len(fsOps)].path>>

\* the indices of the consumed Text blocks that contain the terminal pattern
MatchingTexts ==
    {i \in 1..Len(consumed) :
        /\ consumed[i].type = "TextBlock"
        /\ consumed[i].text # None
        /\ Marker \in Range(consumed[i].text)}

\* C23: when the stream ended cleanly and several Text blocks matched the
\* terminal pattern, final_message is the last line of the first of them.
C23_FirstMatchWins ==
    (CleanEnd /\ RanOnFiles /\ MatchingTexts # {}) =>
        LET first == CHOOSE i \in MatchingTexts : \A j \in MatchingTexts : i <= j
        IN result.final_message = LastLine(consumed[first].text)

\* the blocks an invocation has visited, from the messages the stream yielded:
\* the content of the assistant messages, in order, up to the block that ended
\* the run if one did
RECURSIVE BlocksOf(_)
BlocksOf(msgs) ==
    IF msgs = <<>> THEN <<>>
    ELSE LET m == msgs[Len(msgs)]
             all == IF m.type = "AssistantMessage" /\ "content" \in DOMAIN m
                    THEN m.content ELSE <<>>
             bad == {i \in 1..Len(all) : "payload" \in DOMAIN all[i]
                                          /\ all[i].payload = "no_repr"}
             cut == IF bad = {} THEN all
                    ELSE SubSeq(all, 1, (CHOOSE i \in bad : \A j \in bad : i <= j) - 1)
         IN BlocksOf(SubSeq(msgs, 1, Len(msgs) - 1))
            \o cut

\* the entry of a block whose payload renders
EntryOf(b) ==
    CASE b.type = "TextBlock" -> IF b.text = None THEN <<>> ELSE b.text
      [] b.type = "ToolUseBlock" -> <<"[Claude][ToolUse] ", b.name, ": ", b.input>>
      [] b.type = "ToolResultBlock" ->
            <<"[Claude][ToolResult] ",
              IF "tool_name" \in DOMAIN b THEN b.tool_name ELSE "tool", ": ",
              IF "output" \in DOMAIN b THEN b.output ELSE "None">>

\* C24: at every point of the loop, logs has one entry per Text, ToolUse and
\* ToolResult block of the assistant messages yielded so far, in arrival
\* order: the text as it is, '[Claude][ToolUse] name: input',
\* '[Claude][ToolResult] name: output'; other messages and other blocks add
\* nothing, and no entry is moved or dropped.
C24_LogsFollowArrival ==
    (pc \in {"streaming", "returned", "cancelled"} /\ sessionsOpened > 0) =>
        LET visited == IF procExc \in BodyExceptions
                       THEN BlocksOf(SubSeq(yielded, 1, Len(yielded) - 1))
                       ELSE BlocksOf(yielded)
            IsEvent(b) == b.type \in {"TextBlock", "ToolUseBlock", "ToolResultBlock"}
            events == SelectSeq(visited, IsEvent)
        IN /\ Len(logs) = Len(events)
           /\ \A k \in 1..Len(events) :
                 "payload" \notin DOMAIN events[k] => logs[k] = EntryOf(events[k])

\* two messages were consumed, the second with blocks of several types, and a
\* message that is not an assistant message was yielded
C24_Witness ==
    /\ pc = "streaming"
    /\ Len(yielded) = 2
    /\ yielded[1].type = "UserMessage"
    /\ Len(logs) = 3
    /\ Len(consumed) = 4
    /\ logs[3] = <<"[Claude][ToolResult] ", "Read", ": ", "{}">>

\* the stream yielded a tool block whose payload does not render
SawUnformattable ==
    \E i \in 1..Len(yielded) :
        /\ yielded[i].type = "AssistantMessage"
        /\ "content" \in DOMAIN yielded[i]
        /\ \E k \in 1..Len(yielded[i].content) : "payload" \in DOMAIN yielded[i].content[k]

\* C25: a tool block whose payload cannot be formatted does not end the run:
\* when the stream neither raised nor was cut short by anything else, the
\* outcome is the final outcome, logs has one entry for every Text, ToolUse
\* and ToolResult block yielded, and success says whether a terminal line was
\* yielded.
C25_UnformattablePayloadTolerated ==
    (pc = "returned" /\ RanOnFiles /\ SawUnformattable /\ streamExc = NoExc
        /\ procExc \notin BodyExceptions) =>
        LET all == [i \in 1..Len(yielded) |->
                       IF yielded[i].type = "AssistantMessage" /\ "content" \in DOMAIN yielded[i]
                       THEN yielded[i].content ELSE <<>>]
            line == <<Marker, PortStr(IF req.port \in {NoneInt, 0} THEN 8111 ELSE req.port)>>
        IN /\ "error" \notin DOMAIN result
           /\ result.success =
                 (\E i \in 1..Len(all) : \E k \in 1..Len(all[i]) :
                     all[i][k].type = "TextBlock" /\ all[i][k].text = line)

C27_CallerListUntouched ==
    (pc # "idle" /\ req.allowed_tools # None) =>
        /\ callerTools = req.allowed_tools
        /\ (sessionsOpened > 0 /\ req.allow_bash /\ "Bash" \notin Range(req.allowed_tools)) =>
              /\ "Bash" \in Range(options.allowed_tools)
              /\ "Bash" \notin Range(callerTools)

\* a session was opened with allow_bash and the list ['Read']
C27_Witness ==
    /\ sessionsOpened > 0
    /\ req.allow_bash
    /\ req.allowed_tools = <<"Read">>
    /\ options.allowed_tools = <<"Read", "Bash">>
    /\ callerTools = <<"Read">>

\* C28: when execute_with_har_recording returns and its session had a live
\* context, the context is closed, whether storage_state was saved or raised
\* and whether agent.run() returned or raised (a close() that itself raises
\* set aside).
C28_ContextClosedBeforeReturn ==
    (browser.pc = "returned" /\ browser.method = "execute_with_har_recording"
        /\ browser.closeExc = NoExc) =>
        browser.context # "live"

\* C29: both methods end by returning a result: after a failure of the build
\* or of the run it has success == false, the text of the exception as error
\* and result and action_taken null; a success has error null; a failure to
\* save the storage state, or to close the context, leaves a success a
\* success; the route answers 200 with the result.
C29_BrowserFailuresAreResults ==
    browser.pc = "returned" =>
        LET res == browser.result
        IN /\ res.success = (browser.exc = NoExc)
           /\ browser.exc # NoExc =>
                /\ res.error = browser.exc.msg
                /\ res.result = None
                /\ res.action_taken = None
           /\ res.success => res.error = None /\ res.result # None
           /\ (browser.saveExc # NoExc /\ browser.exc = NoExc) => res.success
           /\ browser.http = [status |-> 200, body |-> res]

\* a recording run succeeded although saving the storage state raised
C29_Witness ==
    /\ browser.pc = "returned"
    /\ browser.method = "execute_with_har_recording"
    /\ browser.saveExc # NoExc
    /\ browser.result.success
    /\ browser.result.error = None

\* C30, first part: a call reaches the SDK client only when it found
\* is_connected true.
C30_ForwardedWhileConnected ==
    agent.last.forwarded => agent.last.was_connected

\* C30, second part: send_message and get_server_info called while not
\* connected raise RuntimeError and leave conversation_history and total_cost
\* as they were.
C30_GuardLeavesStateAlone ==
    (agent.last.op \in {"send_message", "get_server_info"} /\ ~agent.last.was_connected) =>
        /\ agent.last.raised = NotConnected
        /\ agent.conversation_history = agent.last.history
        /\ agent.total_cost = agent.last.cost

\* both parts happened: a refused send after a forwarded one has billed
C30_GuardWitness ==
    /\ agent.last.op = "send_message"
    /\ ~agent.last.was_connected
    /\ agent.last.raised = NotConnected
    /\ agent.total_cost > 0

\* C30: a call is forwarded to the SDK client only while is_connected is true;
\* send_message and get_server_info while not connected raise RuntimeError and
\* leave conversation_history and total_cost unchanged; and when an
\* `async with ClaudeAgent` block has just been left, is_connected is false.
C30_ConnectedGuardsAndExit ==
    /\ C30_ForwardedWhileConnected
    /\ C30_GuardLeavesStateAlone
    /\ agent.last.op = "__aexit__" => ~agent.is_connected

====
